---- MODULE Spec2Model ----
(***************************************************************************)
(* Model of flask-docker-dev/scripts/scaffold_project.py: the Flask        *)
(* project scaffold generator.                                             *)
(*                                                                         *)
(* Representation.                                                         *)
(*  - A string is a sequence of pieces.  A piece is an atom of text; the   *)
(*    characters that matter to a parser (newline, ':', ' ', '#', '[',     *)
(*    quotes, '/') are always pieces of their own.                         *)
(*  - A project name is a sequence of one-character pieces.                *)
(*  - A path is a sequence of components, a component is a string          *)
(*    (sequence of pieces).  <<>> is the current directory.                *)
(*  - The file system is a set of directories and a function from file     *)
(*    paths to their contents.                                             *)
(***************************************************************************)
EXTENDS Integers, Sequences, FiniteSets, TLC

\* ------------------------------------------------------------------------
\* Bounds
\* ------------------------------------------------------------------------
MaxNameLen == 2
MaxRuns == 2
MaxFaults == 1

\* ------------------------------------------------------------------------
\* String helpers
\* ------------------------------------------------------------------------
NL == "\n"

RECURSIVE Concat(_)
\* ''.join(parts): the concatenation of a sequence of strings
Concat(parts) ==
    IF parts = <<>> THEN <<>> ELSE Head(parts) \o Concat(Tail(parts))

RECURSIVE Join(_, _)
\* sep.join(parts): str.join, the separator goes between the parts only
Join(sep, parts) ==
    IF parts = <<>> THEN <<>>
    ELSE IF Len(parts) = 1 THEN Head(parts)
    ELSE Head(parts) \o sep \o Join(sep, Tail(parts))

\* one line of a triple-quoted literal: its pieces and the line terminator
L(pieces) == pieces \o <<NL>>

RECURSIVE Ascending(_)
\* the elements of a finite set of integers, smallest first
Ascending(S) ==
    IF S = {} THEN <<>>
    ELSE LET m == CHOOSE i \in S : \A j \in S : i <= j
         IN  <<m>> \o Ascending(S \ {m})

\* s.split(sep) for a one-piece separator: the parts between the
\* occurrences of sep, empty parts included
SplitOn(s, sep) ==
    LET at  == Ascending({i \in 1..Len(s) : s[i] = sep})
        cut == <<0>> \o at \o <<Len(s) + 1>>
    IN  [k \in 1..(Len(at) + 1) |-> SubSeq(s, cut[k] + 1, cut[k + 1] - 1)]

\* str.splitlines(): the lines of a text, a final newline opens no new line
SplitLines(s) ==
    LET parts == SplitOn(s, NL)
    IN  IF parts[Len(parts)] = <<>> THEN SubSeq(parts, 1, Len(parts) - 1)
        ELSE parts

Range(f) == { f[i] : i \in DOMAIN f }

\* ------------------------------------------------------------------------
\* Content generators
\* ------------------------------------------------------------------------
_create_requirements_swapped(with_database, with_auth) ==
    LET reqs == << <<"Flask", "==", "3.0.0">>,
                   <<"gunicorn", "==", "21.2.0">>,
                   <<"python-dotenv", "==", "1.0.0">> >>
                \o (IF with_auth
                    THEN << <<"Flask-SQLAlchemy", "==", "3.1.1">>,
                            <<"alembic", "==", "1.13.0">> >>
                    ELSE <<>>)
                \o (IF with_auth
                    THEN << <<"Flask-Login", "==", "0.6.3">>,
                            <<"WTForms", "==", "3.1.1">>,
                            <<"email-validator", "==", "2.1.0">> >>
                    ELSE <<>>)
    IN  Join(<<NL>>, reqs) \o <<NL>>

_create_requirements(with_database, with_auth) ==
    LET reqs == << <<"Flask", "==", "3.0.0">>,
                   <<"gunicorn", "==", "21.2.0">>,
                   <<"python-dotenv", "==", "1.0.0">> >>
                \o (IF with_database
                    THEN << <<"Flask-SQLAlchemy", "==", "3.1.1">>,
                            <<"alembic", "==", "1.13.0">> >>
                    ELSE <<>>)
                \o (IF with_auth
                    THEN << <<"Flask-Login", "==", "0.6.3">>,
                            <<"WTForms", "==", "3.1.1">>,
                            <<"email-validator", "==", "2.1.0">> >>
                    ELSE <<>>)
    IN  Join(<<NL>>, reqs) \o <<NL>>

_create_dockerfile ==
    Concat(<<
      L(<<"#", " Multi-stage build for production">>),
      L(<<"FROM", " ", "python:3.11-slim as base">>),
      L(<<>>),
      L(<<"#", " Security: create non-root user">>),
      L(<<"RUN", " ", "groupadd -r appuser && useradd -r -g appuser appuser">>),
      L(<<>>),
      L(<<"WORKDIR", " ", "/app">>),
      L(<<>>),
      L(<<"#", " Install system dependencies">>),
      L(<<"RUN", " ", "apt-get update && apt-get install -y --no-install-recommends ", "\\">>),
      L(<<"    ", "curl ", "\\">>),
      L(<<"    ", "&& rm -rf /var/lib/apt/lists/*">>),
      L(<<>>),
      L(<<"#", " Development stage">>),
      L(<<"FROM", " ", "base as development">>),
      L(<<"COPY", " ", "requirements.txt .">>),
      L(<<"RUN", " ", "pip install --no-cache-dir -r requirements.txt">>),
      L(<<"COPY", " ", ". .">>),
      L(<<"USER", " ", "appuser">>),
      L(<<"EXPOSE", " ", "5000">>),
      L(<<"CMD", " ", "[\"flask\", \"run\", \"--host=0.0.0.0\"]">>),
      L(<<>>),
      L(<<"#", " Production stage">>),
      L(<<"FROM", " ", "base as production">>),
      L(<<"COPY", " ", "requirements.txt .">>),
      L(<<"RUN", " ", "pip install --no-cache-dir -r requirements.txt">>),
      L(<<"COPY", " ", ". .">>),
      L(<<"RUN", " ", "chown -R appuser:appuser /app">>),
      L(<<"USER", " ", "appuser">>),
      L(<<>>),
      L(<<"#", " Security: drop unnecessary capabilities">>),
      L(<<"RUN", " ", "setcap -r /usr/sbin/setcap || true">>),
      L(<<>>),
      L(<<"EXPOSE", " ", "5000">>),
      L(<<"HEALTHCHECK", " ", "--interval=30s --timeout=3s --start-period=5s --retries=3 ", "\\">>),
      L(<<"    ", "CMD python healthcheck.py">>),
      L(<<>>),
      L(<<"CMD", " ", "[\"gunicorn\", \"--bind\", \"0.0.0.0:5000\", \"--workers\", \"4\", \"--timeout\", \"60\", \"--access-logfile\", \"-\", \"wsgi:app\"]">>)
    >>)

\* a YAML line "<indent>key:" or "<indent>key: value"
KV(indent, key, value) ==
    L(<<indent, key, ":">> \o (IF value = <<>> THEN <<>> ELSE <<" ">> \o value))

\* a YAML line "<indent>- value"
Item(indent, value) == L(<<indent, "-", " ">> \o value)

DQ(text) == <<"\"", text, "\"">>

_create_docker_compose(project_name) ==
    Concat(<<
      KV("", "version", <<"'", "3.8", "'">>),
      L(<<>>),
      KV("", "services", <<>>),
      KV("  ", "web", <<>>),
      KV("    ", "build", <<>>),
      KV("      ", "context", <<".">>),
      KV("      ", "dockerfile", <<"Dockerfile">>),
      KV("      ", "target", <<"development">>),
      KV("    ", "container_name", project_name \o <<"_dev">>),
      KV("    ", "ports", <<>>),
      Item("      ", DQ("127.0.0.1:5000:5000")),
      KV("    ", "volumes", <<>>),
      Item("      ", <<".:/app">>),
      Item("      ", <<"/app/__pycache__">>),
      KV("    ", "environment", <<>>),
      Item("      ", <<"FLASK_ENV=development">>),
      Item("      ", <<"FLASK_APP=wsgi.py">>),
      KV("    ", "env_file", <<>>),
      Item("      ", <<".env">>),
      KV("    ", "networks", <<>>),
      Item("      ", <<"app-network">>),
      KV("    ", "healthcheck", <<>>),
      KV("      ", "test", <<"[">> \o DQ("CMD") \o <<",", " ">> \o DQ("python")
                            \o <<",", " ">> \o DQ("healthcheck.py") \o <<"]">>),
      KV("      ", "interval", <<"30s">>),
      KV("      ", "timeout", <<"3s">>),
      KV("      ", "retries", <<"3">>),
      KV("      ", "start_period", <<"5s">>),
      L(<<>>),
      KV("", "networks", <<>>),
      KV("  ", "app-network", <<>>),
      KV("    ", "driver", <<"bridge">>)
    >>)

\* the Markdown code fence (three backquotes), named because a TLA+ string
\* cannot hold a backquote
FENCE == "<code-fence>"

\* the setup_steps string of _create_readme; it is a plain literal, so its
\* "{project_name}" is emitted as written
setup_steps(with_database) ==
    Concat(<<
      L(<<>>),
      L(<<"## ", "Development Setup">>),
      L(<<>>),
      L(<<"1. ", "Clone and enter the project:">>),
      L(<<"   ", FENCE>>),
      L(<<"   ", "cd {project_name}">>),
      L(<<"   ", FENCE>>),
      L(<<>>),
      L(<<"2. ", "Create and activate virtual environment:">>),
      L(<<"   ", FENCE>>),
      L(<<"   ", "python -m venv venv">>),
      L(<<"   ", "source venv/bin/activate  # On Windows: venv\\Scripts\\activate">>),
      L(<<"   ", FENCE>>),
      L(<<>>),
      L(<<"3. ", "Install dependencies:">>),
      L(<<"   ", FENCE>>),
      L(<<"   ", "pip install -r requirements.txt">>),
      L(<<"   ", FENCE>>),
      L(<<>>),
      L(<<"4. ", "Set up environment:">>),
      L(<<"   ", FENCE>>),
      L(<<"   ", "cp .env.example .env">>),
      L(<<"   ", FENCE>>)
    >>)
    \o (IF with_database
        THEN Concat(<<
               L(<<>>),
               L(<<"5. ", "Initialize database:">>),
               L(<<"   ", FENCE>>),
               L(<<"   ", "flask db init">>),
               L(<<"   ", "flask db migrate -m \"Initial migration\"">>),
               L(<<"   ", "flask db upgrade">>),
               L(<<"   ", FENCE>>)
             >>)
        ELSE <<>>)
    \o Concat(<<
         L(<<>>),
         L(<<"6. ", "Run development server:">>),
         L(<<"   ", FENCE>>),
         L(<<"   ", "flask run">>),
         L(<<"   ", FENCE>>),
         L(<<>>),
         L(<<"   ", "Or with Docker:">>),
         L(<<"   ", FENCE>>),
         L(<<"   ", "docker-compose up">>),
         L(<<"   ", FENCE>>),
         L(<<>>),
         L(<<"The app will be available at http://localhost:5000">>)
       >>)

\* the head of the README: title and the unconditional feature bullets
readme_head(project_name) ==
    Concat(<<
      L(<<"# ">> \o project_name),
      L(<<>>),
      L(<<"A modern Flask application with Docker support.">>),
      L(<<>>),
      L(<<"## ", "Features">>),
      L(<<>>),
      L(<<"- ", "Application factory pattern">>),
      L(<<"- ", "Blueprints for modular routing">>),
      L(<<"- ", "Environment-based configuration">>),
      L(<<"- ", "Docker & docker-compose setup">>),
      L(<<"- ", "Production-ready with gunicorn">>),
      L(<<"- ", "Security best practices">>)
    >>)

_create_readme_authgated(project_name, with_database, with_auth) ==
    readme_head(project_name)
    \o (IF with_database
        THEN L(<<"- ", "SQLAlchemy ORM with migrations">>)
             \o L(<<"- ", "Database support">>)
        ELSE <<>>)
    \o (IF with_auth /\ with_database
        THEN L(<<"- ", "User authentication">>)
             \o L(<<"- ", "Flask-Login integration">>)
        ELSE <<>>)
    \o setup_steps(with_database)

_create_readme(project_name, with_database, with_auth) ==
    readme_head(project_name)
    \o (IF with_database
        THEN L(<<"- ", "SQLAlchemy ORM with migrations">>)
             \o L(<<"- ", "Database support">>)
        ELSE <<>>)
    \o (IF with_auth
        THEN L(<<"- ", "User authentication">>)
             \o L(<<"- ", "Flask-Login integration">>)
        ELSE <<>>)
    \o setup_steps(with_database)

\* The generators below produce text no property inspects; each literal of
\* the source is one piece, named after its first line.
_create_app_init(with_database, with_auth) ==
    LET imports == <<"from flask import Flask">>
                   \o (IF with_database
                       THEN <<NL, "from flask_sqlalchemy import SQLAlchemy", NL>>
                       ELSE <<>>)
                   \o (IF with_auth
                       THEN <<NL, "from flask_login import LoginManager", NL>>
                       ELSE <<>>)
        config  == <<NL, "from config import config_by_name ... def create_app">>
                   \o (IF with_database
                       THEN <<NL, "    from app.models import db", NL,
                              "    db.init_app(app)">>
                       ELSE <<>>)
                   \o (IF with_auth
                       THEN <<NL, "    from flask_login import LoginManager", NL,
                              "    login_manager = LoginManager()", NL,
                              "    login_manager.init_app(app)">>
                       ELSE <<>>)
                   \o <<NL, NL, "    # Register blueprints ... main_bp", NL>>
                   \o (IF with_auth
                       THEN <<"    from app.auth import bp as auth_bp", NL,
                              "    app.register_blueprint(auth_bp)", NL>>
                       ELSE <<>>)
                   \o <<NL, "    return app", NL>>
    IN  imports \o config

_create_user_model == <<"from app import db ... class User(UserMixin, db.Model)", NL>>

_create_auth_routes == <<"from flask import Blueprint ... bp = Blueprint(auth)", NL>>

_create_main_blueprint == <<"from flask import Blueprint ... bp = Blueprint(main)", NL>>

_create_config == <<"import os ... config_by_name", NL>>

_create_wsgi == <<"import os ... app = create_app(config_name)", NL>>

_create_env_example == <<"FLASK_ENV=development ... DATABASE_URL=sqlite:///app.db", NL>>

_create_healthcheck == <<"#!/usr/bin/env python ... sys.exit(1)", NL>>

_create_base_template(project_name) ==
    <<"<!DOCTYPE html> ... <title>{% block title %} - ">> \o project_name
    \o <<"{% endblock %}</title> ... <h1>">> \o project_name
    \o <<"</h1> ... <p>&copy; 2024 ">> \o project_name
    \o <<"</p> ... </html>", NL>>

_create_index_template == <<"{% extends base.html %} ... {% endblock %}", NL>>

_create_test_main == <<"def test_index(client): ...", NL>>

_create_gitignore == <<"# Python ... .dockerignore", NL>>

_create_dockerignore == <<"__pycache__ ... migrations/", NL>>

\* ------------------------------------------------------------------------
\* Readers of the generated formats
\* ------------------------------------------------------------------------
IsHeading(l) == l # <<>> /\ l[1] \in {"# ", "## "}

\* the lines of the Markdown section under the given heading line, up to
\* the next heading
SectionOf(lines, heading) ==
    LET starts == {i \in 1..Len(lines) : lines[i] = heading}
    IN  IF starts = {} THEN <<>>
        ELSE LET h    == CHOOSE i \in starts : \A j \in starts : i <= j
                 ends == {i \in (h + 1)..Len(lines) : IsHeading(lines[i])}
                 e    == IF ends = {} THEN Len(lines) + 1
                         ELSE CHOOSE i \in ends : \A j \in ends : i <= j
             IN  SubSeq(lines, h + 1, e - 1)

IsBullet(l) == l # <<>> /\ l[1] = "- "

\* the bullet points of the README's Features section, in order
FeatureBullets(text) ==
    LET sect    == SectionOf(SplitLines(text), <<"## ", "Features">>)
        bullets == SelectSeq(sect, IsBullet)
    IN  [i \in 1..Len(bullets) |-> Tail(bullets[i])]

\* every bullet line of the README, whatever its section
AllBullets(text) ==
    LET bullets == SelectSeq(SplitLines(text), IsBullet)
    IN  [i \in 1..Len(bullets) |-> Tail(bullets[i])]

VersionOps == {"==", ">=", "<=", "~=", "!=", ">", "<", "==="}

\* a requirements file: blank lines, comments, or name-operator-version
RequirementLineOK(l) ==
    \/ l = <<>>
    \/ l[1] = "#"
    \/ /\ Len(l) = 3
       /\ l[2] \in VersionOps
       /\ l[1] \notin VersionOps \cup {" ", "#", ""}
       /\ l[3] \notin VersionOps \cup {" ", "#", ""}

RequirementsValid(text) ==
    \A l \in Range(SplitLines(text)) : RequirementLineOK(l)

DockerInstructions ==
    {"FROM", "RUN", "CMD", "LABEL", "MAINTAINER", "EXPOSE", "ENV", "ADD",
     "COPY", "ENTRYPOINT", "VOLUME", "USER", "WORKDIR", "ARG", "ONBUILD",
     "STOPSIGNAL", "HEALTHCHECK", "SHELL"}

RECURSIVE DockerLogical(_, _)
\* the logical lines of a Dockerfile: comment and blank lines dropped, a
\* line ending in a backslash joined with the next one
DockerLogical(lines, cur) ==
    IF lines = <<>> THEN (IF cur = <<>> THEN <<>> ELSE <<cur>>)
    ELSE LET l == Head(lines)
         IN  IF l = <<>> \/ l[1] = "#" THEN DockerLogical(Tail(lines), cur)
             ELSE IF l[Len(l)] = "\\"
                  THEN DockerLogical(Tail(lines), cur \o SubSeq(l, 1, Len(l) - 1))
             ELSE <<cur \o l>> \o DockerLogical(Tail(lines), <<>>)

DockerfileValid(text) ==
    LET ls == DockerLogical(SplitLines(text), <<>>)
    IN  /\ ls # <<>>
        /\ ls[1][1] \in {"FROM", "ARG"}
        /\ \A i \in 1..Len(ls) :
              /\ ls[i][1] \in DockerInstructions
              /\ Len(ls[i]) >= 3
              /\ ls[i][2] = " "

RECURSIVE StripSpaces(_)
StripSpaces(v) ==
    IF v # <<>> /\ Head(v) = " " THEN StripSpaces(Tail(v)) ELSE v

RECURSIVE CutComment(_)
\* a plain scalar ends where " #" starts a comment
CutComment(v) ==
    IF Len(v) < 2 THEN v
    ELSE IF v[1] = " " /\ v[2] = "#" THEN <<>>
    ELSE <<Head(v)>> \o CutComment(Tail(v))

YamlIndicators == {"]", "{", "}", ",", "&", "*", "!", "|", ">", "%", "@"}

\* a plain (unquoted) scalar on one line of a block mapping
PlainOK(v) ==
    LET w == CutComment(v)
    IN  /\ w[1] \notin YamlIndicators
        /\ ~(w[1] \in {"-", "?"} /\ Len(w) >= 2 /\ w[2] = " ")
        /\ \A i \in 1..Len(w) :
              w[i] = ":" => (i < Len(w) /\ w[i + 1] # " ")

\* the value after "key:" or "- ": empty, a comment, a quoted scalar, a
\* flow sequence or a plain scalar
ScalarOK(value) ==
    LET v == StripSpaces(value)
    IN  IF v = <<>> THEN TRUE
        ELSE IF v[1] = "#" THEN TRUE
        ELSE IF v[1] \in {"\"", "'"}
             THEN /\ Len(v) >= 2
                  /\ v[Len(v)] = v[1]
                  /\ \A i \in 2..(Len(v) - 1) : v[i] # v[1]
        ELSE IF v[1] = "["
             THEN /\ v[Len(v)] = "]"
                  /\ \A i \in 2..(Len(v) - 1) : v[i] \notin {"[", "]"}
                  /\ Cardinality({i \in 1..Len(v) : v[i] = "\""}) % 2 = 0
        ELSE PlainOK(v)

YamlIndents == {"", "  ", "    ", "      "}

ComposeLineOK(l) ==
    \/ l = <<>>
    \/ /\ Len(l) >= 3
       /\ l[1] \in YamlIndents
       /\ \/ l[2] = "-" /\ l[3] = " " /\ ScalarOK(SubSeq(l, 4, Len(l)))
          \/ /\ l[2] \notin {"-", ":", " "}
             /\ l[3] = ":"
             /\ Len(l) > 3 => l[4] = " " /\ ScalarOK(SubSeq(l, 5, Len(l)))

ComposeValid(text) ==
    \A l \in Range(SplitLines(text)) : ComposeLineOK(l)

\* ------------------------------------------------------------------------
\* Paths and the file system
\* ------------------------------------------------------------------------
\* a path component written as a literal in the source
C(text) == <<text>>

\* the root directory, first component of an absolute path
ROOTDIR == <<"/">>

IsRealComponent(c) == c \notin {<<>>, <<".">>}

\* Path(path) / project_name: the name is split at "/", empty and "."
\* components vanish, and an absolute name replaces the path
PathJoin(path, project_name) ==
    LET comps == SelectSeq(SplitOn(project_name, "/"), IsRealComponent)
    IN  IF project_name # <<>> /\ project_name[1] = "/"
        THEN <<ROOTDIR>> \o comps
        ELSE path \o comps

Parent(p) == SubSeq(p, 1, Len(p) - 1)

\* p is q or lies below q
AtOrBelow(p, q) == Len(p) >= Len(q) /\ SubSeq(p, 1, Len(q)) = q

Below(p, q) == Len(p) > Len(q) /\ SubSeq(p, 1, Len(q)) = q

\* the part of p below root
RelativeTo(p, root) == SubSeq(p, Len(root) + 1, Len(p))

\* Path.exists(): a directory or a file is there
PathExistsFileOnly(ds, fs, p) == p \in DOMAIN fs

PathExists(ds, fs, p) == p \in ds \/ p \in DOMAIN fs

\* the ancestors of d (d included) that are not directories yet, topmost
\* first: what mkdir(parents=True) has to create
MissingChain(ds, d) ==
    LET n == Cardinality({k \in 1..Len(d) : SubSeq(d, 1, k) \notin ds})
    IN  [i \in 1..n |-> SubSeq(d, 1, Len(d) - n + i)]

\* os.mkdir raises for good when d or one of its ancestors is a regular file
MkdirBlocked(fs, d) == \E k \in 1..Len(d) : SubSeq(d, 1, k) \in DOMAIN fs

\* open(p, "w") raises when the parent is no directory or p is a directory
WriteBlocked(ds, p) == Parent(p) \notin ds \/ p \in ds

\* ------------------------------------------------------------------------
\* create_project_structure: the plan
\* ------------------------------------------------------------------------
DirsNoAuth(project_root, with_database, with_auth) ==
    << project_root \o <<C("app")>>,
       project_root \o <<C("app"), C("templates")>>,
       project_root \o <<C("app"), C("static"), C("css")>>,
       project_root \o <<C("app"), C("static"), C("js")>>,
       project_root \o <<C("tests")>> >>
    \o (IF with_database
        THEN << project_root \o <<C("migrations")>>,
                project_root \o <<C("app"), C("models")>> >>
        ELSE <<>>)

DirsAuthWithDb(project_root, with_database, with_auth) ==
    << project_root \o <<C("app")>>,
       project_root \o <<C("app"), C("templates")>>,
       project_root \o <<C("app"), C("static"), C("css")>>,
       project_root \o <<C("app"), C("static"), C("js")>>,
       project_root \o <<C("tests")>> >>
    \o (IF with_database
        THEN << project_root \o <<C("migrations")>>,
                project_root \o <<C("app"), C("models")>> >>
        ELSE <<>>)
    \o (IF with_auth \/ with_database
        THEN << project_root \o <<C("app"), C("auth")>> >>
        ELSE <<>>)

\* the dirs list, in the order the loop walks it
Dirs(project_root, with_database, with_auth) ==
    << project_root \o <<C("app")>>,
       project_root \o <<C("app"), C("templates")>>,
       project_root \o <<C("app"), C("static"), C("css")>>,
       project_root \o <<C("app"), C("static"), C("js")>>,
       project_root \o <<C("tests")>> >>
    \o (IF with_database
        THEN << project_root \o <<C("migrations")>>,
                project_root \o <<C("app"), C("models")>> >>
        ELSE <<>>)
    \o (IF with_auth
        THEN << project_root \o <<C("app"), C("auth")>> >>
        ELSE <<>>)

\* one write_text statement: the file and the generator called for its text
W(path, gen) == [path |-> path, gen |-> gen]

WriteStepsGitignoreInCwd(project_root, with_database, with_auth) ==
    << W(project_root \o <<C("app"), C("__init__.py")>>, "_create_app_init"),
       W(project_root \o <<C("tests"), C("__init__.py")>>, "") >>
    \o (IF with_database
        THEN << W(project_root \o <<C("app"), C("models"), C("__init__.py")>>, ""),
                W(project_root \o <<C("app"), C("models"), C("user.py")>>,
                  "_create_user_model") >>
        ELSE <<>>)
    \o (IF with_auth
        THEN << W(project_root \o <<C("app"), C("auth"), C("__init__.py")>>, ""),
                W(project_root \o <<C("app"), C("auth"), C("routes.py")>>,
                  "_create_auth_routes") >>
        ELSE <<>>)
    \o << W(project_root \o <<C("app"), C("main.py")>>, "_create_main_blueprint"),
          W(project_root \o <<C("config.py")>>, "_create_config"),
          W(project_root \o <<C("wsgi.py")>>, "_create_wsgi"),
          W(project_root \o <<C("requirements.txt")>>, "_create_requirements"),
          W(project_root \o <<C(".env.example")>>, "_create_env_example"),
          W(project_root \o <<C(".dockerignore")>>, "_create_dockerignore"),
          W(project_root \o <<C("Dockerfile")>>, "_create_dockerfile"),
          W(project_root \o <<C("docker-compose.yml")>>, "_create_docker_compose"),
          W(project_root \o <<C("healthcheck.py")>>, "_create_healthcheck"),
          W(project_root \o <<C("app"), C("templates"), C("base.html")>>,
            "_create_base_template"),
          W(project_root \o <<C("app"), C("templates"), C("index.html")>>,
            "_create_index_template"),
          W(project_root \o <<C("tests"), C("test_main.py")>>, "_create_test_main"),
          W(<<C(".gitignore")>>, "_create_gitignore"),
          W(project_root \o <<C("README.md")>>, "_create_readme") >>

\* the write_text statements, in program order
WriteSteps(project_root, with_database, with_auth) ==
    << W(project_root \o <<C("app"), C("__init__.py")>>, "_create_app_init"),
       W(project_root \o <<C("tests"), C("__init__.py")>>, "") >>
    \o (IF with_database
        THEN << W(project_root \o <<C("app"), C("models"), C("__init__.py")>>, ""),
                W(project_root \o <<C("app"), C("models"), C("user.py")>>,
                  "_create_user_model") >>
        ELSE <<>>)
    \o (IF with_auth
        THEN << W(project_root \o <<C("app"), C("auth"), C("__init__.py")>>, ""),
                W(project_root \o <<C("app"), C("auth"), C("routes.py")>>,
                  "_create_auth_routes") >>
        ELSE <<>>)
    \o << W(project_root \o <<C("app"), C("main.py")>>, "_create_main_blueprint"),
          W(project_root \o <<C("config.py")>>, "_create_config"),
          W(project_root \o <<C("wsgi.py")>>, "_create_wsgi"),
          W(project_root \o <<C("requirements.txt")>>, "_create_requirements"),
          W(project_root \o <<C(".env.example")>>, "_create_env_example"),
          W(project_root \o <<C(".dockerignore")>>, "_create_dockerignore"),
          W(project_root \o <<C("Dockerfile")>>, "_create_dockerfile"),
          W(project_root \o <<C("docker-compose.yml")>>, "_create_docker_compose"),
          W(project_root \o <<C("healthcheck.py")>>, "_create_healthcheck"),
          W(project_root \o <<C("app"), C("templates"), C("base.html")>>,
            "_create_base_template"),
          W(project_root \o <<C("app"), C("templates"), C("index.html")>>,
            "_create_index_template"),
          W(project_root \o <<C("tests"), C("test_main.py")>>, "_create_test_main"),
          W(project_root \o <<C(".gitignore")>>, "_create_gitignore"),
          W(project_root \o <<C("README.md")>>, "_create_readme") >>

\* the argument of a write_text statement: the call it makes, or ""
TextOf(gen, project_name, with_database, with_auth) ==
    CASE gen = "" -> <<>>
      [] gen = "_create_app_init" -> _create_app_init(with_database, with_auth)
      [] gen = "_create_user_model" -> _create_user_model
      [] gen = "_create_auth_routes" -> _create_auth_routes
      [] gen = "_create_main_blueprint" -> _create_main_blueprint
      [] gen = "_create_config" -> _create_config
      [] gen = "_create_wsgi" -> _create_wsgi
      [] gen = "_create_requirements" ->
            _create_requirements(with_database, with_auth)
      [] gen = "_create_env_example" -> _create_env_example
      [] gen = "_create_dockerignore" -> _create_dockerignore
      [] gen = "_create_dockerfile" -> _create_dockerfile
      [] gen = "_create_docker_compose" -> _create_docker_compose(project_name)
      [] gen = "_create_healthcheck" -> _create_healthcheck
      [] gen = "_create_base_template" -> _create_base_template(project_name)
      [] gen = "_create_index_template" -> _create_index_template
      [] gen = "_create_test_main" -> _create_test_main
      [] gen = "_create_gitignore" -> _create_gitignore
      [] gen = "_create_readme" ->
            _create_readme(project_name, with_database, with_auth)

\* ------------------------------------------------------------------------
\* State
\* ------------------------------------------------------------------------
VARIABLES
    dirs,       \* file system: the set of directories
    files,      \* file system: file path -> content
    pc,         \* position of the running process in main
    idx,        \* index of the next entry of dirs / the next write_text
    args,       \* parsed command line: path, name, db, auth
    exitCode,   \* exit status of the last process, -1 while it runs
    stderr,     \* what the process printed on the error stream
    stdout,     \* what the process printed on the output stream
    outcome,    \* how the process ended
    runs,       \* number of invocations so far
    faults,     \* number of environment failures so far
    snapDirs,   \* history: dirs when the process started
    snapFiles,  \* history: files when the process started
    trace,      \* history: file-system calls of the process, in order
    created,    \* history: <<path, name>> of earlier runs that made their destination
    genIn,      \* generator check: the inputs
    genFn,      \* generator check: the function applied
    genOut      \* generator check: its result

vars == <<dirs, files, pc, idx, args, exitCode, stderr, stdout, outcome, runs,
          faults, snapDirs, snapFiles, trace, created, genIn, genFn, genOut>>

fsVars == <<dirs, files, pc, idx, args, exitCode, stderr, stdout, outcome,
            runs, faults, snapDirs, snapFiles, trace, created>>

genVars == <<genIn, genFn, genOut>>

\* ------------------------------------------------------------------------
\* Inputs
\* ------------------------------------------------------------------------
NoFiles == [p \in {} |-> <<>>]

\* the file systems a run may start from: "o" absent, "o" a directory, "o" a
\* regular file, and the destination "a" already there with a file in it
InitialFileSystems ==
    { [dirs |-> {<<>>}, files |-> NoFiles],
      [dirs |-> {<<>>, <<C("o")>>}, files |-> NoFiles],
      [dirs |-> {<<>>}, files |-> (<<C("o")>> :> <<"data">>)],
      [dirs |-> {<<>>, <<C("a")>>},
       files |-> (<<C("a"), C("keep")>> :> <<"kept">>)] }

\* the command lines: --path and project_name
Targets ==
    { [path |-> <<>>, name |-> <<"a">>],
      [path |-> <<C("o")>>, name |-> <<"a">>],
      [path |-> <<>>, name |-> <<"o", "/", "a">>] }

NoArgs == [path |-> <<>>, name |-> <<>>, db |-> FALSE, auth |-> FALSE]

\* ------------------------------------------------------------------------
\* main
\* ------------------------------------------------------------------------
ProjectRoot == PathJoin(args.path, args.name)

TheDirs == Dirs(ProjectRoot, args.db, args.auth)

TheWrites == WriteSteps(ProjectRoot, args.db, args.auth)

TheText(w) == TextOf(w.gen, args.name, args.db, args.auth)

Ev(kind, path) == [kind |-> kind, path |-> path]

\* history bookkeeping: something is at p
IsThere(ds, fs, p) == p \in ds \/ p \in DOMAIN fs

Init ==
    /\ \E fs \in InitialFileSystems :
          /\ dirs = fs.dirs
          /\ files = fs.files
          /\ snapDirs = fs.dirs
          /\ snapFiles = fs.files
    /\ pc = "idle"
    /\ idx = 0
    /\ args = NoArgs
    /\ exitCode = -1
    /\ stderr = <<>>
    /\ stdout = <<>>
    /\ outcome = "none"
    /\ runs = 0
    /\ faults = 0
    /\ trace = <<>>
    /\ created = {}
    /\ genIn = NoArgs
    /\ genFn = "none"
    /\ genOut = <<>>

\* a process is started: argparse fills args, project_root is computed
Invoke ==
    /\ pc \in {"idle", "exited"}
    /\ runs < MaxRuns
    /\ \E t \in Targets, db \in BOOLEAN, auth \in BOOLEAN :
          args' = [path |-> t.path, name |-> t.name, db |-> db, auth |-> auth]
    /\ created' = IF /\ pc = "exited"
                     /\ ~IsThere(snapDirs, snapFiles, ProjectRoot)
                     /\ IsThere(dirs, files, ProjectRoot)
                  THEN created \cup {<<args.path, args.name>>}
                  ELSE created
    /\ pc' = "main"
    /\ idx' = 0
    /\ exitCode' = -1
    /\ stderr' = <<>>
    /\ stdout' = <<>>
    /\ outcome' = "running"
    /\ runs' = runs + 1
    /\ snapDirs' = dirs
    /\ snapFiles' = files
    /\ trace' = <<>>
    /\ UNCHANGED <<dirs, files, faults, genVars>>

MainCheckNoExit ==
    /\ pc = "main"
    /\ IF PathExists(dirs, files, ProjectRoot)
       THEN /\ stderr' = <<"Error: Directory '", ProjectRoot, "' already exists">>
            /\ pc' = "mkdir"
            /\ idx' = 1
            /\ UNCHANGED <<exitCode, outcome>>
       ELSE /\ pc' = "mkdir"
            /\ idx' = 1
            /\ UNCHANGED <<stderr, exitCode, outcome>>
    /\ UNCHANGED <<dirs, files, args, stdout, runs, faults, snapDirs,
                   snapFiles, trace, created, genVars>>

\* if project_root.exists(): print the error and sys.exit(1); otherwise
\* enter create_project_structure
MainCheck ==
    /\ pc = "main"
    /\ IF PathExists(dirs, files, ProjectRoot)
       THEN /\ stderr' = <<"Error: Directory '", ProjectRoot, "' already exists">>
            /\ exitCode' = 1
            /\ outcome' = "exists"
            /\ pc' = "exited"
            /\ idx' = 0
       ELSE /\ pc' = "mkdir"
            /\ idx' = 1
            /\ UNCHANGED <<stderr, exitCode, outcome>>
    /\ UNCHANGED <<dirs, files, args, stdout, runs, faults, snapDirs,
                   snapFiles, trace, created, genVars>>

\* except Exception as e: print the message on stderr, sys.exit(1)
ExceptHandler(how) ==
    /\ stderr' = <<"Error creating project: ", how>>
    /\ exitCode' = 1
    /\ outcome' = how
    /\ pc' = "exited"
    /\ idx' = 0

MadeEvents(chain) == [i \in 1..Len(chain) |-> Ev("made", chain[i])]

\* one iteration of the loop: dir_path.mkdir(parents=True, exist_ok=True)
MkdirOk ==
    /\ pc = "mkdir"
    /\ idx <= Len(TheDirs)
    /\ LET d     == TheDirs[idx]
           chain == MissingChain(dirs, d)
       IN  /\ ~MkdirBlocked(files, d)
           /\ dirs' = dirs \cup Range(chain)
           /\ trace' = Append(trace, Ev("mkdir", d)) \o MadeEvents(chain)
    /\ idx' = idx + 1
    /\ UNCHANGED <<files, pc, args, exitCode, stderr, stdout, outcome, runs,
                   faults, snapDirs, snapFiles, created, genVars>>

\* the mkdir raises: a regular file is in the way, or the environment
\* refuses after some of the missing ancestors were made
MkdirRaise ==
    /\ pc = "mkdir"
    /\ idx <= Len(TheDirs)
    /\ LET d       == TheDirs[idx]
           blocked == MkdirBlocked(files, d)
           chain   == MissingChain(dirs, d)
           last    == IF blocked \/ chain = <<>> THEN 0 ELSE Len(chain) - 1
       IN  /\ blocked \/ faults < MaxFaults
           /\ faults' = IF blocked THEN faults ELSE faults + 1
           /\ \E k \in 0..last :
                 /\ dirs' = dirs \cup Range(SubSeq(chain, 1, k))
                 /\ trace' = Append(trace, Ev("mkdir", d))
                             \o MadeEvents(SubSeq(chain, 1, k))
                             \o <<Ev("raised", d)>>
    /\ ExceptHandler("create_failed")
    /\ UNCHANGED <<files, args, stdout, runs, snapDirs, snapFiles, created,
                   genVars>>

\* the loop over dirs is done, the write_text statements follow
EndMkdirs ==
    /\ pc = "mkdir"
    /\ idx = Len(TheDirs) + 1
    /\ pc' = "write"
    /\ idx' = 1
    /\ UNCHANGED <<dirs, files, args, exitCode, stderr, stdout, outcome, runs,
                   faults, snapDirs, snapFiles, trace, created, genVars>>

\* one statement (project_root / ...).write_text(...)
WriteOk ==
    /\ pc = "write"
    /\ idx <= Len(TheWrites)
    /\ LET w == TheWrites[idx]
       IN  /\ ~WriteBlocked(dirs, w.path)
           /\ files' = (w.path :> TheText(w)) @@ files
           /\ trace' = trace \o <<Ev("write", w.path), Ev("wrote", w.path)>>
    /\ idx' = idx + 1
    /\ UNCHANGED <<dirs, pc, args, exitCode, stderr, stdout, outcome, runs,
                   faults, snapDirs, snapFiles, created, genVars>>

WriteRaiseCleanup ==
    /\ pc = "write"
    /\ idx <= Len(TheWrites)
    /\ LET w       == TheWrites[idx]
           blocked == WriteBlocked(dirs, w.path)
       IN  /\ blocked \/ faults < MaxFaults
           /\ faults' = IF blocked THEN faults ELSE faults + 1
           /\ \E opened \in (IF blocked THEN {FALSE} ELSE BOOLEAN) :
                 /\ files' = [p \in {q \in DOMAIN files : ~Below(q, ProjectRoot)}
                                 |-> files[p]]
                 /\ trace' = Append(trace, Ev("write", w.path))
                             \o (IF opened THEN <<Ev("truncated", w.path)>>
                                 ELSE <<>>)
                             \o <<Ev("raised", w.path)>>
    /\ ExceptHandler("create_failed")
    /\ dirs' = {p \in dirs : ~AtOrBelow(p, ProjectRoot)}
    /\ UNCHANGED <<args, stdout, runs, snapDirs, snapFiles, created, genVars>>

\* the write_text raises: the file cannot be opened (it is left as it was),
\* or it was opened and truncated and the write failed (it is left empty)
WriteRaise ==
    /\ pc = "write"
    /\ idx <= Len(TheWrites)
    /\ LET w       == TheWrites[idx]
           blocked == WriteBlocked(dirs, w.path)
       IN  /\ blocked \/ faults < MaxFaults
           /\ faults' = IF blocked THEN faults ELSE faults + 1
           /\ \E opened \in (IF blocked THEN {FALSE} ELSE BOOLEAN) :
                 /\ files' = IF opened THEN (w.path :> <<>>) @@ files ELSE files
                 /\ trace' = Append(trace, Ev("write", w.path))
                             \o (IF opened THEN <<Ev("truncated", w.path)>>
                                 ELSE <<>>)
                             \o <<Ev("raised", w.path)>>
    /\ ExceptHandler("create_failed")
    /\ UNCHANGED <<dirs, args, stdout, runs, snapDirs, snapFiles, created,
                   genVars>>

\* create_project_structure returned
EndWrites ==
    /\ pc = "write"
    /\ idx = Len(TheWrites) + 1
    /\ pc' = "print"
    /\ idx' = 0
    /\ UNCHANGED <<dirs, files, args, exitCode, stderr, stdout, outcome, runs,
                   faults, snapDirs, snapFiles, trace, created, genVars>>

\* the success messages are printed and main returns
PrintOk ==
    /\ pc = "print"
    /\ stdout' = <<"Project '", args.name, "' created at ", ProjectRoot,
                   "Next steps:">>
    /\ exitCode' = 0
    /\ outcome' = "ok"
    /\ pc' = "exited"
    /\ UNCHANGED <<dirs, files, idx, args, stderr, runs, faults, snapDirs,
                   snapFiles, trace, created, genVars>>

\* a print of the success messages raises inside the try block (the first
\* one holds a non-ASCII character: UnicodeEncodeError on a stream that
\* cannot encode it)
PrintRaise ==
    /\ pc = "print"
    /\ faults < MaxFaults
    /\ faults' = faults + 1
    /\ ExceptHandler("print_failed")
    /\ UNCHANGED <<dirs, files, args, stdout, runs, snapDirs, snapFiles,
                   trace, created, genVars>>

Next ==
    \/ Invoke
    \/ MainCheck
    \/ MkdirOk
    \/ MkdirRaise
    \/ EndMkdirs
    \/ WriteOk
    \/ WriteRaise
    \/ EndWrites
    \/ PrintOk
    \/ PrintRaise

Spec == Init /\ [][Next]_vars

\* ------------------------------------------------------------------------
\* The content generators on their own
\* ------------------------------------------------------------------------
NameAlphabet == {"a", ":", " ", "["}

GenNames == UNION { [1..n -> NameAlphabet] : n \in 0..MaxNameLen }

InitGen ==
    /\ dirs = {<<>>}
    /\ files = NoFiles
    /\ snapDirs = {<<>>}
    /\ snapFiles = NoFiles
    /\ pc = "idle"
    /\ idx = 0
    /\ args = NoArgs
    /\ exitCode = -1
    /\ stderr = <<>>
    /\ stdout = <<>>
    /\ outcome = "none"
    /\ runs = 0
    /\ faults = 0
    /\ trace = <<>>
    /\ created = {}
    /\ \E n \in GenNames, db \in BOOLEAN, auth \in BOOLEAN :
          genIn = [path |-> <<>>, name |-> n, db |-> db, auth |-> auth]
    /\ genFn = "none"
    /\ genOut = <<>>

GenRequirements ==
    /\ genFn = "none"
    /\ genFn' = "_create_requirements"
    /\ genOut' = _create_requirements(genIn.db, genIn.auth)
    /\ UNCHANGED <<genIn, fsVars>>

GenDockerfile ==
    /\ genFn = "none"
    /\ genFn' = "_create_dockerfile"
    /\ genOut' = _create_dockerfile
    /\ UNCHANGED <<genIn, fsVars>>

GenDockerCompose ==
    /\ genFn = "none"
    /\ genFn' = "_create_docker_compose"
    /\ genOut' = _create_docker_compose(genIn.name)
    /\ UNCHANGED <<genIn, fsVars>>

GenReadme ==
    /\ genFn = "none"
    /\ genFn' = "_create_readme"
    /\ genOut' = _create_readme(genIn.name, genIn.db, genIn.auth)
    /\ UNCHANGED <<genIn, fsVars>>

NextGen ==
    \/ GenRequirements
    \/ GenDockerfile
    \/ GenDockerCompose
    \/ GenReadme

SpecGen == InitGen /\ [][NextGen]_vars

\* ------------------------------------------------------------------------
\* Properties of the content generators (checked under SpecGen)
\* ------------------------------------------------------------------------
BaseBullets ==
    << <<"Application factory pattern">>,
       <<"Blueprints for modular routing">>,
       <<"Environment-based configuration">>,
       <<"Docker & docker-compose setup">>,
       <<"Production-ready with gunicorn">>,
       <<"Security best practices">> >>

DatabaseBullets == << <<"SQLAlchemy ORM with migrations">>, <<"Database support">> >>

AuthBullets == << <<"User authentication">>, <<"Flask-Login integration">> >>

ExpectedBullets(db, auth) ==
    CASE ~db /\ ~auth -> BaseBullets
      [] db /\ ~auth  -> BaseBullets \o DatabaseBullets
      [] ~db /\ auth  -> BaseBullets \o AuthBullets
      [] db /\ auth   -> BaseBullets \o DatabaseBullets \o AuthBullets

\* C6: the README's feature list is the six base bullets, then the two
\* database bullets exactly when with_database, then the two authentication
\* bullets exactly when with_auth; the README has no other bullet line.
ReadmeBulletsMatchToggles ==
    genFn = "_create_readme" =>
        /\ FeatureBullets(genOut) = ExpectedBullets(genIn.db, genIn.auth)
        /\ AllBullets(genOut) = FeatureBullets(genOut)

ReadmeDatabaseOnlyGenerated ==
    /\ genFn = "_create_readme"
    /\ genIn.db
    /\ ~genIn.auth
    /\ Len(FeatureBullets(genOut)) = 8

\* C7: Dockerfile, docker-compose.yml and requirements.txt parse under
\* their formats, for every toggle combination and every project name.
GeneratedFilesParse ==
    /\ genFn = "_create_requirements" => RequirementsValid(genOut)
    /\ genFn = "_create_dockerfile" => DockerfileValid(genOut)
    /\ genFn = "_create_docker_compose" => ComposeValid(genOut)

BasePins ==
    << <<"Flask", "==", "3.0.0">>,
       <<"gunicorn", "==", "21.2.0">>,
       <<"python-dotenv", "==", "1.0.0">> >>

DatabasePins ==
    << <<"Flask-SQLAlchemy", "==", "3.1.1">>, <<"alembic", "==", "1.13.0">> >>

AuthPins ==
    << <<"Flask-Login", "==", "0.6.3">>,
       <<"WTForms", "==", "3.1.1">>,
       <<"email-validator", "==", "2.1.0">> >>

ExpectedPins(db, auth) ==
    CASE ~db /\ ~auth -> BasePins
      [] db /\ ~auth  -> BasePins \o DatabasePins
      [] ~db /\ auth  -> BasePins \o AuthPins
      [] db /\ auth   -> BasePins \o DatabasePins \o AuthPins

\* C9: requirements.txt is the three base pins, then the two database pins
\* exactly when with_database, then the three auth pins exactly when
\* with_auth, one per line, every line terminated, no pin twice.
RequirementsByInclusion ==
    genFn = "_create_requirements" =>
        LET lines == SplitLines(genOut)
        IN  /\ lines = ExpectedPins(genIn.db, genIn.auth)
            /\ genOut[Len(genOut)] = NL
            /\ \A i, j \in 1..Len(lines) : lines[i] = lines[j] => i = j

RequirementsAuthOnlyGenerated ==
    /\ genFn = "_create_requirements"
    /\ ~genIn.db
    /\ genIn.auth
    /\ Len(SplitLines(genOut)) = 6

\* ------------------------------------------------------------------------
\* Properties of a run (checked under Spec)
\* ------------------------------------------------------------------------
ExistedAtStart == IsThere(snapDirs, snapFiles, ProjectRoot)

\* C1: when the destination exists as the process starts, the process makes
\* no file-system call, leaves the file system as it was and exits with 1.
ExistingDestinationUntouched ==
    (pc # "idle" /\ ExistedAtStart) =>
        /\ pc \in {"main", "exited"}
        /\ trace = <<>>
        /\ dirs = snapDirs
        /\ files = snapFiles
        /\ pc = "exited" => exitCode = 1 /\ outcome = "exists"

PreexistingDestinationRefused ==
    /\ pc = "exited"
    /\ runs = 1
    /\ ExistedAtStart
    /\ exitCode = 1
    /\ <<C("a"), C("keep")>> \in DOMAIN files

\* what lies below project_root, relative to it
DirsUnderRoot ==
    { RelativeTo(p, ProjectRoot) : p \in {q \in dirs : Below(q, ProjectRoot)} }

FilesUnderRoot ==
    { RelativeTo(p, ProjectRoot) :
        p \in {q \in DOMAIN files : Below(q, ProjectRoot)} }

ClaimedDirs(db, auth) ==
    { <<C("app")>>, <<C("app"), C("templates")>>,
      <<C("app"), C("static"), C("css")>>, <<C("app"), C("static"), C("js")>>,
      <<C("tests")>> }
    \cup (IF db THEN { <<C("migrations")>>, <<C("app"), C("models")>> } ELSE {})
    \cup (IF auth THEN { <<C("app"), C("auth")>> } ELSE {})

ClaimedFiles(db, auth) ==
    { <<C("app"), C("__init__.py")>>, <<C("tests"), C("__init__.py")>>,
      <<C("app"), C("main.py")>>, <<C("config.py")>>, <<C("wsgi.py")>>,
      <<C("requirements.txt")>>, <<C(".env.example")>>, <<C(".dockerignore")>>,
      <<C("Dockerfile")>>, <<C("docker-compose.yml")>>, <<C("healthcheck.py")>>,
      <<C("app"), C("templates"), C("base.html")>>,
      <<C("app"), C("templates"), C("index.html")>>,
      <<C("tests"), C("test_main.py")>>, <<C(".gitignore")>>, <<C("README.md")>> }
    \cup (IF db THEN { <<C("app"), C("models"), C("__init__.py")>>,
                       <<C("app"), C("models"), C("user.py")>> } ELSE {})
    \cup (IF auth THEN { <<C("app"), C("auth"), C("__init__.py")>>,
                         <<C("app"), C("auth"), C("routes.py")>> } ELSE {})

\* create_project_structure has returned
StructureDone == pc = "print" \/ outcome \in {"ok", "print_failed"}

\* C2 as stated: after create_project_structure the paths under
\* project_root are exactly the listed directories and files.
CreatedExactlyClaimedPaths ==
    StructureDone =>
        /\ DirsUnderRoot = ClaimedDirs(args.db, args.auth)
        /\ FilesUnderRoot = ClaimedFiles(args.db, args.auth)

\* C2 amended: the paths under project_root are the listed directories and
\* files and the intermediate directory app/static, and nothing else.
CreatedClaimedPathsAndStatic ==
    StructureDone =>
        /\ DirsUnderRoot = ClaimedDirs(args.db, args.auth)
                           \cup { <<C("app"), C("static")>> }
        /\ FilesUnderRoot = ClaimedFiles(args.db, args.auth)
        /\ ProjectRoot \in dirs

DatabaseOnlyStructureDone ==
    /\ pc = "print"
    /\ args.db
    /\ ~args.auth
    /\ Cardinality(FilesUnderRoot) = 18

\* the destination as a tree: its directories and its files with contents
Subtree(ds, fs, root) ==
    [dirs  |-> {p \in ds : AtOrBelow(p, root)},
     files |-> [p \in {q \in DOMAIN fs : AtOrBelow(q, root)} |-> fs[p]]]

\* C3: an invocation with the path and name of an earlier invocation that
\* made the destination leaves the destination's paths and contents as they
\* were and exits with a non-zero status, whatever its toggles.
SecondRunFailsUnchanged ==
    (pc # "idle" /\ <<args.path, args.name>> \in created) =>
        /\ Subtree(dirs, files, ProjectRoot)
             = Subtree(snapDirs, snapFiles, ProjectRoot)
        /\ pc \in {"main", "exited"}
        /\ pc = "exited" => exitCode # 0

SecondRunRefused ==
    /\ pc = "exited"
    /\ runs = 2
    /\ <<args.path, args.name>> \in created
    /\ exitCode = 1
    /\ ProjectRoot \o <<C("README.md")>> \in DOMAIN files

\* every directory of the plan is there and every file has its text
WholeSetPresent ==
    /\ \A i \in 1..Len(TheDirs) : TheDirs[i] \in dirs
    /\ \A j \in 1..Len(TheWrites) :
          /\ TheWrites[j].path \in DOMAIN files
          /\ files[TheWrites[j].path] = TheText(TheWrites[j])

\* C4: the exit status is 0 exactly when the run created the whole
\* directory/file set, and 1 with a message on the error stream otherwise.
ExitStatusTellsCreation ==
    pc = "exited" =>
        /\ exitCode \in {0, 1}
        /\ exitCode = 0 <=> (~ExistedAtStart /\ WholeSetPresent)
        /\ exitCode = 1 => stderr # <<>>

\* the steps of create_project_structure, in program order
Plan ==
    [i \in 1..Len(TheDirs) |-> Ev("mkdir", TheDirs[i])]
    \o [j \in 1..Len(TheWrites) |-> Ev("write", TheWrites[j].path)]

IsAttempt(e) == e.kind \in {"mkdir", "write"}

Attempts == SelectSeq(trace, IsAttempt)

PlannedText(p) ==
    TheText(CHOOSE w \in Range(TheWrites) : w.path = p)

\* C5: when a step of create_project_structure raises, the steps attempted
\* are the plan up to the failing one, each once; the raise is the last
\* file-system event; and every directory made and every file written
\* before it is still there, the files with their text.
FailureKeepsPartialOutput ==
    outcome = "create_failed" =>
        /\ Attempts = SubSeq(Plan, 1, Len(Attempts))
        /\ trace[Len(trace)].kind = "raised"
        /\ \A i \in 1..(Len(trace) - 1) : trace[i].kind # "raised"
        /\ \A i \in 1..Len(trace) :
              /\ trace[i].kind = "made" => trace[i].path \in dirs
              /\ trace[i].kind = "wrote" =>
                    /\ trace[i].path \in DOMAIN files
                    /\ files[trace[i].path] = PlannedText(trace[i].path)

WriteFailedAfterOutput ==
    /\ outcome = "create_failed"
    /\ args.auth
    /\ Len(Attempts) > Len(TheDirs) + 4
    /\ ProjectRoot \o <<C("app"), C("auth"), C("routes.py")>> \in DOMAIN files

\* C8: when a write_text is attempted, the run has already made the
\* parent directory of the file.
ParentMadeBeforeWrite ==
    \A i \in 1..Len(trace) :
        trace[i].kind = "write" =>
            \E j \in 1..(i - 1) : trace[j] = Ev("made", Parent(trace[i].path))

AuthRoutesWritten ==
    /\ args.auth
    /\ args.db
    /\ \E i \in 1..Len(trace) :
          trace[i] = Ev("wrote", ProjectRoot \o <<C("app"), C("auth"), C("routes.py")>>)
    /\ \E i \in 1..Len(trace) :
          trace[i] = Ev("wrote", ProjectRoot \o <<C("app"), C("models"), C("user.py")>>)

\* the paths the run has added or changed, and nothing is ever removed
ChangedDirs == dirs \ snapDirs

ChangedFiles ==
    {p \in DOMAIN files : p \notin DOMAIN snapFiles \/ files[p] # snapFiles[p]}

NothingRemoved ==
    /\ snapDirs \subseteq dirs
    /\ DOMAIN snapFiles \subseteq DOMAIN files

\* C10 as stated: a run creates or changes entries only at or below
\* project_root.
ChangesOnlyUnderRoot ==
    pc # "idle" =>
        /\ NothingRemoved
        /\ \A p \in ChangedDirs \cup ChangedFiles : AtOrBelow(p, ProjectRoot)

\* C10 amended: a run creates or changes entries only at or below
\* project_root, except that it creates the ancestor directories of
\* project_root that were missing.
ChangesUnderRootOrAncestors ==
    pc # "idle" =>
        /\ NothingRemoved
        /\ \A p \in ChangedFiles : Below(p, ProjectRoot)
        /\ \A p \in ChangedDirs :
              AtOrBelow(p, ProjectRoot) \/ Below(ProjectRoot, p)

MissingPathDirCreated ==
    /\ pc = "print"
    /\ args.path = <<C("o")>>
    /\ <<C("o")>> \notin snapDirs
    /\ <<C("o")>> \in dirs

====
